---- MODULE Spec2Model ----
(***************************************************************************)
(* Model of src/index.js (DAPCOIN auto daily bot): the request client with *)
(* retry and backoff, the login protocol, the task engine, the account     *)
(* processor and the cycle scheduler.                                      *)
(*                                                                         *)
(* The specifications below share the definitions:                         *)
(*   SpecRetry    one call of requestWithRetry after another, with the     *)
(*                full history of each call's attempts and sleeps;         *)
(*   SpecAccount  one call of processAccount (index 0 of 1, no proxy);     *)
(*   Spec         run(): initializeConfig, then cycle after cycle;         *)
(*   FairSpec     Spec with weak fairness of its steps;                    *)
(*   FairBudget   the cycles of run() without proxies, with the HTTP       *)
(*                attempts of each account counted, and weak fairness.     *)
(***************************************************************************)
EXTENDS Integers, Sequences, FiniteSets, TLC

(* ------------------------------ bounds --------------------------------- *)
\* accounts read from pk.txt in one cycle (Spec)
MaxAccounts == 3
\* proxies read from proxy.txt (Spec)
MaxProxies == 2
\* tasks the server lists in the ONCE / DAILY catalog (SpecAccount)
MaxOnce == 5
MaxDaily == 2
\* tasks the server lists in the ONCE catalog under Spec, where the DAILY
\* catalog is empty
SchedTasks == 1
\* accounts in pk.txt and tasks in the ONCE catalog under FairBudget
BudgetAccounts == 2
BudgetTasks == 1

(* -------------------------- program constants -------------------------- *)
Retries_OneMore == 3 + 1

\* the retries argument every caller passes
Retries == 3
\* the backoff argument every caller passes, in ms
InitialBackoff == 2000
\* delay(2) after each task, delay(5) after each account, delay(86400)
\* after each cycle, in seconds
TaskDelay == 2
AccountDelay == 5
CycleDelay == 86400

(* ------------------------------ values --------------------------------- *)
Undefined == "undefined"
Null == "null"
EmptyString == ""
\* no authorization header
NoAuth == "no-authorization"
TokenValues == {"tokA", "tokB"}
Nonces == {"abc", "xyz"}
Statuses == {200, 404, 500, 503}
\* a key of pk.txt: one that Keypair.fromSecretKey(bs58.decode(pk)) accepts
\* and one that makes it throw
Keys == {"good", "bad"}

\* JavaScript truthiness of the values a response field takes here
Truthy(v) == v \notin {Undefined, Null, EmptyString}

VARIABLES
  pc,              \* position of the single thread of control
  globalUseProxy,  \* let globalUseProxy
  globalProxies,   \* let globalProxies
  pks,             \* runCycle: const pks
  i,               \* runCycle: loop index (0-based), 0 outside the loop
  proxy,           \* runCycle: const proxy, the argument of processAccount
  token,           \* processAccount: const token
  req,             \* the logical request in flight: arguments and locals of requestWithRetry
  allTasks,        \* fetchActiveTasks: let allTasks
  activeTasks,     \* processAccount: const activeTasks
  pendingTasks,    \* processAccount: const pendingTasks
  taskIdx,         \* processAccount: tasks of pendingTasks already iterated
  completedCount,  \* processAccount: let completedCount
  outcome,         \* how the current processAccount call ended
  log,             \* history: the logical requests issued for the current account
  issued,          \* history: tokens the server returned to the current account
  lastResp,        \* history: how the latest logical request resolved
  submitted,       \* history: task ids handed to completeTask
  approvedSeen,    \* history: completion responses whose body said APPROVED
  started,         \* history: accounts processAccount was called for in this cycle
  ended,           \* history: how processAccount ended for each of them
  timer,           \* the delay(...) the thread is suspended in, in ms (0: none)
  httpAttempts,    \* history: HTTP attempts made for the current account
                   \* (counted under FairBudget, -1 where it is not counted)
  pauses,          \* history: the delay(2) calls of the current account and the
                   \* delay(5) calls of the current cycle so far
  rtrace           \* history of the current requestWithRetry call (SpecRetry only)

vars == <<pc, globalUseProxy, globalProxies, pks, i, proxy, token, req, allTasks,
          activeTasks, pendingTasks, taskIdx, completedCount, outcome, log,
          issued, lastResp, submitted, approvedSeen, started, ended, timer,
          httpAttempts, pauses, rtrace>>

(* ------------------------- the request client -------------------------- *)
RequestKinds == {"ip", "login", "verify", "checkin", "tasksOnce", "tasksDaily",
                 "complete", "me"}

\* the method argument each caller passes
Method(kind) ==
  IF kind \in {"ip", "tasksOnce", "tasksDaily", "me"} THEN "get" ELSE "post"

\* callers that set config.validateStatus = status >= 200 && status < 500
Permissive(kind) == kind \in {"checkin", "complete"}

\* axios: the status for which the promise resolves
ValidateStatus(permissive, status) ==
  IF permissive THEN status >= 200 /\ status < 500
  ELSE status >= 200 /\ status < 300

\* getAxiosConfig: the authorization header is set only for a truthy token
getAxiosConfig(tok) == IF Truthy(tok) THEN tok ELSE NoAuth

\* no delay(2) and no delay(5) yet
NoPauses == [task |-> 0, account |-> 0]

\* a request without a body
NoPayload == [none |-> TRUE]

\* a response whose body the program does not look at
NoData == [token |-> Undefined, nonce |-> Undefined]

NoReq == [kind |-> "none", payload |-> NoPayload, auth |-> NoAuth,
          i |-> 0, backoff |-> 0]

\* a call requestWithRetry(method, url, payload, config, 3, 2000, context)
NewRequest(kind, payload, auth) ==
  [kind |-> kind, payload |-> payload, auth |-> auth,
   i |-> 0, backoff |-> InitialBackoff]

\* What the server or the network does with one HTTP attempt: no response
\* at all (network failure, 60 s timeout) or a status with a body.
NoResponse == [resp |-> FALSE, status |-> 0, data |-> Undefined]
Outcomes(bodies) ==
  {NoResponse} \cup {[resp |-> TRUE, status |-> s, data |-> d] : s \in Statuses, d \in bodies}

\* the try block: TRUE when it throws (unsupported method, transport error,
\* or a status that validateStatus rejects)
TryThrows(r, o) ==
  \/ Method(r.kind) \notin {"get", "post"}
  \/ ~o.resp
  \/ ~ValidateStatus(Permissive(r.kind), o.status)

\* error.response of the error caught
ErrorHasResponse(r, o) == Method(r.kind) \in {"get", "post"} /\ o.resp

ServerErrorRetry_NoLimit(r, o) == ErrorHasResponse(r, o) /\ o.status >= 500

\* first if of the catch block
ServerErrorRetry(r, o) ==
  ErrorHasResponse(r, o) /\ o.status >= 500 /\ r.i < Retries - 1

AnyErrorRetry_NoLimit(r, o) == TRUE

\* second if of the catch block
AnyErrorRetry(r, o) == r.i < Retries - 1

\* the for loop's condition
LoopContinues(r) == r.i < Retries

NextBackoff_Doubling(b) == b * 2

\* backoff *= 1.5 (exact on the multiples of 2 that occur)
NextBackoff(b) == (b * 3) \div 2

\* delay(seconds): setTimeout(resolve, seconds * 1000), in ms. The argument
\* is a fraction num/den of seconds (backoff / 1000 is not always whole).
delay(seconds) == (seconds.num * 1000) \div seconds.den

\* One iteration of requestWithRetry's loop on outcome o of the HTTP attempt:
\* act is "return" (the response), "throw" (the error caught), "retry" (slept,
\* next attempt in flight) or "undefined" (slept, then the loop ended and the
\* function returned nothing).
requestWithRetry(r, o) ==
  IF ~TryThrows(r, o)
  THEN [act |-> "return", req |-> r, slept |-> 0]
  ELSE IF ServerErrorRetry(r, o) \/ AnyErrorRetry(r, o)
  THEN LET next == [r EXCEPT !.i = @ + 1, !.backoff = NextBackoff(@)]
       IN [act |-> IF LoopContinues(next) THEN "retry" ELSE "undefined",
           req |-> next, slept |-> delay([num |-> r.backoff, den |-> 1000])]
  ELSE [act |-> "throw", req |-> r, slept |-> 0]

(* --------------------- history of one call (SpecRetry) ------------------- *)
NoTrace == [hist |-> <<>>, sleeps |-> <<>>, attempts |-> 0, result |-> "none",
            final |-> [resp |-> FALSE, status |-> 0]]

\* the trace after an attempt with outcome o decided as d
Traced(t, o, d) ==
  [hist |-> IF d.act \in {"retry", "undefined"}
            THEN Append(t.hist, [resp |-> o.resp, status |-> o.status]) ELSE t.hist,
   sleeps |-> IF d.slept > 0 THEN Append(t.sleeps, d.slept) ELSE t.sleeps,
   attempts |-> t.attempts + 1,
   result |-> IF d.act = "retry" THEN "pending" ELSE d.act,
   final |-> [resp |-> o.resp, status |-> o.status]]

Idle ==
  /\ globalUseProxy = FALSE /\ globalProxies = <<>> /\ pks = <<>> /\ i = 0
  /\ proxy = Null /\ token = Undefined /\ allTasks = <<>> /\ activeTasks = <<>>
  /\ pendingTasks = <<>> /\ taskIdx = 0 /\ completedCount = 0 /\ outcome = "none"
  /\ log = <<>> /\ issued = {} /\ lastResp = [kind |-> "none", ok |-> FALSE, data |-> NoData]
  /\ submitted = <<>> /\ approvedSeen = 0 /\ started = <<>> /\ ended = <<>>
  /\ timer = 0 /\ httpAttempts = -1 /\ pauses = NoPauses

\* a caller issues a request: any of the eight call sites
InitRetry ==
  /\ Idle
  /\ pc = "request"
  /\ \E k \in RequestKinds : req = NewRequest(k, NoPayload, NoAuth)
  /\ rtrace = [NoTrace EXCEPT !.result = "pending"]

\* one HTTP attempt of the call resolves
HttpAttempt ==
  /\ pc = "request"
  /\ \E o \in Outcomes({Undefined}) :
       LET d == requestWithRetry(req, o) IN
       /\ req' = d.req
       /\ rtrace' = Traced(rtrace, o, d)
       /\ pc' = IF d.act = "retry" THEN "request" ELSE "resolved"
  /\ UNCHANGED <<globalUseProxy, globalProxies, pks, i, proxy, token, allTasks,
                 activeTasks, pendingTasks, taskIdx, completedCount, outcome, log,
                 issued, lastResp, submitted, approvedSeen, started, ended, timer,
                 httpAttempts, pauses>>

\* the caller goes on to its next call of requestWithRetry
NextCall ==
  /\ pc = "resolved"
  /\ \E k \in RequestKinds : req' = NewRequest(k, NoPayload, NoAuth)
  /\ rtrace' = [NoTrace EXCEPT !.result = "pending"]
  /\ pc' = "request"
  /\ UNCHANGED <<globalUseProxy, globalProxies, pks, i, proxy, token, allTasks,
                 activeTasks, pendingTasks, taskIdx, completedCount, outcome, log,
                 issued, lastResp, submitted, approvedSeen, started, ended, timer,
                 httpAttempts, pauses>>

NextRetry == HttpAttempt \/ NextCall

SpecRetry == InitRetry /\ [][NextRetry]_vars

(* ------------------------------ frames --------------------------------- *)
sched == <<globalUseProxy, globalProxies, pks, i, proxy, started, ended>>
taskVars == <<allTasks, activeTasks, pendingTasks, taskIdx, completedCount,
              submitted, approvedSeen>>

\* one more HTTP attempt, where attempts are counted
Tick(n) == IF n < 0 THEN n ELSE n + 1
\* the count starts again for the next account
Untick(n) == IF n < 0 THEN n ELSE 0

\* the next attempt of the same logical request is in flight
Retrying(d) ==
  /\ req' = d.req
  /\ httpAttempts' = Tick(httpAttempts)
  /\ UNCHANGED <<pc, token, outcome, log, issued, lastResp, taskVars, sched, timer,
                 pauses, rtrace>>

\* a caller calls requestWithRetry
Issue(kind, payload, tok) ==
  /\ req' = NewRequest(kind, payload, getAxiosConfig(tok))
  /\ log' = Append(log, kind)
  /\ pc' = kind
  /\ timer' = 0
  /\ pauses' = pauses

Return_PauseBetween(out) ==
  /\ pc' = "returned"
  /\ outcome' = out
  /\ req' = NoReq
  /\ log' = log
  /\ timer' = IF i + 1 < Len(pks) THEN delay([num |-> AccountDelay, den |-> 1]) ELSE 0
  /\ pauses' = IF i + 1 < Len(pks) THEN [pauses EXCEPT !.account = @ + 1] ELSE pauses

Return_NoPause(out) ==
  /\ pc' = "returned"
  /\ outcome' = out
  /\ req' = NoReq
  /\ log' = log
  /\ timer' = 0
  /\ pauses' = pauses

\* processAccount returns to runCycle, which awaits delay(5)
Return(out) ==
  /\ pc' = "returned"
  /\ outcome' = out
  /\ req' = NoReq
  /\ log' = log
  /\ timer' = delay([num |-> AccountDelay, den |-> 1])
  /\ pauses' = [pauses EXCEPT !.account = @ + 1]

\* how the logical request in flight resolved
Resolve(d, data) ==
  /\ lastResp' = [kind |-> req.kind, ok |-> d.act = "return", data |-> data]
  /\ httpAttempts' = Tick(httpAttempts)

(* ------------------------------ the server ------------------------------ *)
IpBodies == {[ip |-> "203.0.113.7"]}
LoginBodies == [token : {Undefined, EmptyString} \cup TokenValues,
                nonce : {Undefined} \cup Nonces]
VerifyBodies == [token : {Undefined} \cup TokenValues]
CheckinBodies == [message : {"Checked in", "Already checked in today"}]
CompleteBodies == [status : {"APPROVED", "REJECTED"}]
ProfileBodies == [points : {Undefined, "120"}]
\* user_completion of a task: null, or the record of its completion
Markers == {Null, "completion"}

TaskList(freq, ms) ==
  [k \in 1..Len(ms) |-> [id |-> <<freq, k>>, user_completion |-> ms[k]]]

\* the bodies {data: [Task, ...]} of a catalog of at most cap tasks
CatalogBodies(freq, cap) ==
  {[data |-> TaskList(freq, ms)] : ms \in UNION {[1..n -> Markers] : n \in 0..cap}}

(* ------------------------------- login --------------------------------- *)
Address(pk) == <<"address", pk>>
\* nacl.sign.detached(TextEncoder.encode(nonce), secretKey), base64-encoded
Sign(nonce, pk) == <<"base64", <<"signature", nonce, pk>>>>

VerifyPayload(nonce, pk) ==
  [signature |-> Sign(nonce, pk), wallet_address |-> Address(pk)]

LoginPayload(pk) ==
  [wallet_address |-> Address(pk), ref |-> "Z-WEZFT9", email |-> Null, username |-> Null]

\* processAccount up to the first await: decode the key, start the IP lookup
processAccount ==
  /\ pc = "processAccount"
  /\ token' = Undefined
  /\ issued' = {}
  /\ lastResp' = [kind |-> "none", ok |-> FALSE, data |-> NoData]
  /\ allTasks' = <<>> /\ activeTasks' = <<>> /\ pendingTasks' = <<>>
  /\ taskIdx' = 0 /\ completedCount' = 0 /\ submitted' = <<>> /\ approvedSeen' = 0
  /\ httpAttempts' = Untick(httpAttempts)
  /\ IF pks[i + 1] = "bad"
     THEN Return("invalidKey")
     ELSE /\ Issue("ip", NoPayload, Null)
          /\ outcome' = "running"
  /\ UNCHANGED <<sched, rtrace>>

getPublicIP_Fatal ==
  /\ pc = "ip"
  /\ \E o \in Outcomes(IpBodies) :
       LET d == requestWithRetry(req, o) IN
       IF d.act = "retry" THEN Retrying(d)
       ELSE /\ Resolve(d, NoData)
            /\ IF d.act = "return"
               THEN /\ Issue("login", LoginPayload(pks[i + 1]), Null)
                    /\ outcome' = outcome
               ELSE Return("ipFailed")
            /\ UNCHANGED <<token, issued, taskVars, sched, rtrace>>

\* getPublicIP resolves (either way), login starts
getPublicIP ==
  /\ pc = "ip"
  /\ \E o \in Outcomes(IpBodies) :
       LET d == requestWithRetry(req, o) IN
       IF d.act = "retry" THEN Retrying(d)
       ELSE /\ Resolve(d, NoData)
            /\ Issue("login", LoginPayload(pks[i + 1]), Null)
            /\ UNCHANGED <<token, outcome, issued, taskVars, sched, rtrace>>

\* what login does with the response of the login request
LoginBranch_NonceFirst(data) ==
  IF Truthy(data.nonce) THEN "nonce"
  ELSE IF Truthy(data.token) THEN "token"
  ELSE "neither"

LoginBranch_NeitherAsToken(data) ==
  IF Truthy(data.token) THEN "token"
  ELSE IF Truthy(data.nonce) THEN "nonce"
  ELSE "token"

LoginBranch(data) ==
  IF Truthy(data.token) THEN "token"
  ELSE IF Truthy(data.nonce) THEN "nonce"
  ELSE "neither"

\* login: the login request resolves
login ==
  /\ pc = "login"
  /\ \E o \in Outcomes(LoginBodies) :
       LET d == requestWithRetry(req, o)
           branch == IF d.act = "return" THEN LoginBranch(o.data) ELSE "error"
       IN
       IF d.act = "retry" THEN Retrying(d)
       ELSE /\ Resolve(d, IF d.act = "return" THEN o.data ELSE NoData)
            /\ issued' = IF d.act = "return" /\ Truthy(o.data.token)
                         THEN issued \cup {o.data.token} ELSE issued
            /\ IF branch = "token"
               THEN /\ token' = o.data.token
                    /\ Issue("checkin", NoPayload, o.data.token)
                    /\ UNCHANGED outcome
               ELSE IF branch = "nonce"
               THEN /\ Issue("verify", VerifyPayload(o.data.nonce, pks[i + 1]), Null)
                    /\ UNCHANGED <<token, outcome>>
               ELSE /\ Return("loginFailed")
                    /\ UNCHANGED token
            /\ UNCHANGED <<taskVars, sched, rtrace>>

\* login: the verify request resolves
loginVerify ==
  /\ pc = "verify"
  /\ \E o \in Outcomes(VerifyBodies) :
       LET d == requestWithRetry(req, o) IN
       IF d.act = "retry" THEN Retrying(d)
       ELSE /\ Resolve(d, IF d.act = "return" THEN o.data ELSE NoData)
            /\ issued' = IF d.act = "return" /\ Truthy(o.data.token)
                         THEN issued \cup {o.data.token} ELSE issued
            /\ IF d.act = "return"
               THEN /\ token' = o.data.token
                    /\ Issue("checkin", NoPayload, o.data.token)
                    /\ UNCHANGED outcome
               ELSE /\ Return("loginFailed")
                    /\ UNCHANGED token
            /\ UNCHANGED <<taskVars, sched, rtrace>>

(* ----------------------- check-in and the task engine ------------------- *)
\* dailyCheckin resolves (its result is not used), fetchActiveTasks starts
dailyCheckin ==
  /\ pc = "checkin"
  /\ \E o \in Outcomes(CheckinBodies) :
       LET d == requestWithRetry(req, o) IN
       IF d.act = "retry" THEN Retrying(d)
       ELSE /\ Resolve(d, NoData)
            /\ Issue("tasksOnce", NoPayload, token)
            /\ allTasks' = <<>>
            /\ UNCHANGED <<token, outcome, issued, activeTasks, pendingTasks, taskIdx,
                           completedCount, submitted, approvedSeen, sched, rtrace>>

IsPending_Any(task) == TRUE

\* task.user_completion === null
IsPending(task) == task.user_completion = Null

AfterFetch_NoProfileWhenEmpty(tasks) ==
  LET pending == SelectSeq(tasks, IsPending) IN
  /\ activeTasks' = tasks
  /\ pendingTasks' = pending
  /\ IF Len(pending) = 0
     THEN /\ Return("completed")
          /\ submitted' = submitted
     ELSE /\ Issue("complete", [task |-> pending[1].id], token)
          /\ submitted' = Append(submitted, pending[1].id)
          /\ outcome' = outcome
  /\ UNCHANGED <<token, issued, taskIdx, completedCount, approvedSeen, sched, rtrace>>

\* fetchActiveTasks has returned tasks: filter, then either the first
\* completeTask or (formatTaskTable and) fetchProfileInfo
AfterFetch(tasks) ==
  LET pending == SelectSeq(tasks, IsPending) IN
  /\ activeTasks' = tasks
  /\ pendingTasks' = pending
  /\ IF Len(pending) = 0
     THEN /\ Issue("me", NoPayload, token)
          /\ submitted' = submitted
     ELSE /\ Issue("complete", [task |-> pending[1].id], token)
          /\ submitted' = Append(submitted, pending[1].id)
  /\ UNCHANGED <<token, outcome, issued, taskIdx, completedCount, approvedSeen,
                 sched, rtrace>>

\* allTasks = allTasks.concat(response.data.data)
Concat(all, data) == all \o data

fetchActiveTasksCatch_Partial(all) == all

\* the catch block of fetchActiveTasks: return []
fetchActiveTasksCatch(all) == <<>>

\* fetchActiveTasks: the ONCE catalog request resolves
fetchOnce(cap) ==
  /\ pc = "tasksOnce"
  /\ \E o \in Outcomes(CatalogBodies("ONCE", cap)) :
       LET d == requestWithRetry(req, o) IN
       IF d.act = "retry" THEN Retrying(d)
       ELSE /\ Resolve(d, NoData)
            /\ IF d.act = "return"
               THEN /\ allTasks' = Concat(allTasks, o.data.data)
                    /\ Issue("tasksDaily", NoPayload, token)
                    /\ UNCHANGED <<token, outcome, issued, activeTasks, pendingTasks,
                                   taskIdx, completedCount, submitted, approvedSeen,
                                   sched, rtrace>>
               ELSE /\ AfterFetch(fetchActiveTasksCatch(allTasks))
                    /\ allTasks' = allTasks

\* fetchActiveTasks: the DAILY catalog request resolves
fetchDaily(cap) ==
  /\ pc = "tasksDaily"
  /\ \E o \in Outcomes(CatalogBodies("DAILY", cap)) :
       LET d == requestWithRetry(req, o) IN
       IF d.act = "retry" THEN Retrying(d)
       ELSE /\ Resolve(d, NoData)
            /\ IF d.act = "return"
               THEN /\ allTasks' = Concat(allTasks, o.data.data)
                    /\ AfterFetch(Concat(allTasks, o.data.data))
               ELSE /\ AfterFetch(fetchActiveTasksCatch(allTasks))
                    /\ allTasks' = allTasks

\* the result of completeTask
completeTask(act, data) ==
  [success |-> act = "return" /\ data.status = "APPROVED"]

\* completeTask resolves for pendingTasks[taskIdx + 1]; bar.tick()
completeTaskDone ==
  /\ pc = "complete"
  /\ \E o \in Outcomes(CompleteBodies) :
       LET d == requestWithRetry(req, o) IN
       IF d.act = "retry" THEN Retrying(d)
       ELSE /\ Resolve(d, NoData)
            /\ completedCount' = IF completeTask(d.act, o.data).success
                                 THEN completedCount + 1 ELSE completedCount
            /\ approvedSeen' = IF d.act = "return" /\ o.resp /\ o.data.status = "APPROVED"
                               THEN approvedSeen + 1 ELSE approvedSeen
            /\ pc' = "taskDelay"
            /\ req' = NoReq
            /\ timer' = delay([num |-> TaskDelay, den |-> 1])
            /\ pauses' = [pauses EXCEPT !.task = @ + 1]
            /\ UNCHANGED <<token, outcome, log, issued, allTasks, activeTasks,
                           pendingTasks, taskIdx, submitted, sched, rtrace>>

TaskLoopContinues_StopOnFailure(idx, n, count) == idx < n /\ count = idx

\* for (const task of pendingTasks): another task after idx of n were iterated
TaskLoopContinues(idx, n, count) == idx < n

\* await delay(2) ends: the next task, or the end of the loop
\* (formatTaskTable, then fetchProfileInfo)
taskDelay ==
  /\ pc = "taskDelay"
  /\ taskIdx' = taskIdx + 1
  /\ IF TaskLoopContinues(taskIdx + 1, Len(pendingTasks), completedCount)
     THEN /\ Issue("complete", [task |-> pendingTasks[taskIdx + 2].id], token)
          /\ submitted' = Append(submitted, pendingTasks[taskIdx + 2].id)
     ELSE /\ Issue("me", NoPayload, token)
          /\ submitted' = submitted
  /\ UNCHANGED <<token, outcome, issued, lastResp, allTasks, activeTasks, pendingTasks,
                 completedCount, approvedSeen, sched, httpAttempts, rtrace>>

\* fetchProfileInfo resolves; printProfileInfo calls totalPoints.toString(),
\* which throws into processAccount's catch when points is missing
fetchProfileInfo ==
  /\ pc = "me"
  /\ \E o \in Outcomes(ProfileBodies) :
       LET d == requestWithRetry(req, o) IN
       IF d.act = "retry" THEN Retrying(d)
       ELSE /\ Resolve(d, NoData)
            /\ Return(IF d.act = "return" /\ o.data.points = Undefined
                      THEN "displayError" ELSE "completed")
            /\ UNCHANGED <<token, issued, taskVars, sched, rtrace>>

AccountNext(onceCap, dailyCap) ==
  \/ processAccount
  \/ getPublicIP
  \/ login
  \/ loginVerify
  \/ dailyCheckin
  \/ fetchOnce(onceCap)
  \/ fetchDaily(dailyCap)
  \/ completeTaskDone
  \/ taskDelay
  \/ fetchProfileInfo

\* processAccount(pk, 0, 1, null) is called for one key
InitAccount ==
  /\ pc = "processAccount"
  /\ globalUseProxy = FALSE /\ globalProxies = <<>>
  /\ pks \in {<<k>> : k \in Keys} /\ i = 0 /\ proxy = Null
  /\ started = <<0>> /\ ended = <<>>
  /\ token = Undefined /\ req = NoReq
  /\ allTasks = <<>> /\ activeTasks = <<>> /\ pendingTasks = <<>>
  /\ taskIdx = 0 /\ completedCount = 0 /\ outcome = "none"
  /\ log = <<>> /\ issued = {}
  /\ lastResp = [kind |-> "none", ok |-> FALSE, data |-> NoData]
  /\ submitted = <<>> /\ approvedSeen = 0
  /\ timer = 0 /\ httpAttempts = -1 /\ pauses = NoPauses
  /\ rtrace = NoTrace

NextAccount == AccountNext(MaxOnce, MaxDaily)

SpecAccount == InitAccount /\ [][NextAccount]_vars

(* ---------------------------- the scheduler ----------------------------- *)
\* what readProxies returns: the lines of proxy.txt (none when it is missing)
ProxyFiles == {[k \in 1..n |-> <<"proxy", k>>] : n \in 0..MaxProxies}
\* what readPKs returns: the lines of pk.txt (none when it is missing)
KeyFiles == UNION {[1..n -> Keys] : n \in 0..MaxAccounts}

NoLocals ==
  /\ token' = Undefined /\ req' = NoReq
  /\ allTasks' = <<>> /\ activeTasks' = <<>> /\ pendingTasks' = <<>>
  /\ taskIdx' = 0 /\ completedCount' = 0 /\ outcome' = "none"
  /\ log' = <<>> /\ issued' = {}
  /\ lastResp' = [kind |-> "none", ok |-> FALSE, data |-> NoData]
  /\ submitted' = <<>> /\ approvedSeen' = 0
  /\ httpAttempts' = Untick(httpAttempts)
  /\ pauses' = [pauses EXCEPT !.task = 0]

\* run() has printed the banner and calls initializeConfig
Init ==
  /\ Idle
  /\ pc = "initializeConfig"
  /\ req = NoReq
  /\ rtrace = NoTrace

UseProxyAfterRead_KeepTrue(file) == TRUE

\* globalUseProxy = true, set back to false when readProxies returned nothing
UseProxyAfterRead(file) == Len(file) # 0

\* initializeConfig: the answer to the prompt, then readProxies
initializeConfig ==
  /\ pc = "initializeConfig"
  /\ \E ans \in {"y", "n"}, file \in ProxyFiles :
       IF ans = "y"
       THEN /\ globalProxies' = file
            /\ globalUseProxy' = UseProxyAfterRead(file)
       ELSE UNCHANGED <<globalUseProxy, globalProxies>>
  /\ pc' = "runCycle"
  /\ UNCHANGED <<pks, i, proxy, started, ended, token, req, outcome, log, issued,
                 lastResp, taskVars, timer, httpAttempts, pauses, rtrace>>

AssignProxy_Clamp(useProxy, proxies, idx) ==
  IF useProxy
  THEN IF Len(proxies) = 0 THEN Undefined
       ELSE proxies[IF idx + 1 > Len(proxies) THEN Len(proxies) ELSE idx + 1]
  ELSE Null

\* const proxy = globalUseProxy ? globalProxies[i % globalProxies.length] : null
AssignProxy(useProxy, proxies, idx) ==
  IF useProxy
  THEN IF Len(proxies) = 0 THEN Undefined ELSE proxies[(idx % Len(proxies)) + 1]
  ELSE Null

CycleEnd_ExitWhenEmpty(n) == IF n = 0 THEN "exit" ELSE "cycleDone"

CycleEnd_Exit(n) == "exit"

\* runCycle has returned after n accounts: run logs and awaits delay(86400)
CycleEnd(n) == "cycleDone"

\* runCycle up to its first call of processAccount, readPKs returning one
\* of files
runCycleFrom(files) ==
  /\ pc = "runCycle"
  /\ \E file \in files :
       /\ pks' = file
       /\ IF Len(file) = 0
          THEN /\ pc' = CycleEnd(0)
               /\ proxy' = Null /\ started' = <<>>
               /\ timer' = delay([num |-> CycleDelay, den |-> 1])
          ELSE /\ pc' = "processAccount"
               /\ proxy' = AssignProxy(globalUseProxy, globalProxies, 0)
               /\ started' = <<0>>
               /\ timer' = 0
  /\ i' = 0
  /\ ended' = <<>>
  /\ UNCHANGED <<globalUseProxy, globalProxies, token, req, outcome, log, issued,
                 lastResp, taskVars, httpAttempts, pauses, rtrace>>

runCycle == runCycleFrom(KeyFiles)

runCycleContinues_StopOnAbort(idx, n, out) == idx < n /\ out = "completed"

\* the for loop of runCycle goes on whatever became of the account before
runCycleContinues(idx, n, out) == idx < n

\* processAccount has returned; await delay(5); i++
runCycleNext ==
  /\ pc = "returned"
  /\ ended' = Append(ended, outcome)
  /\ IF runCycleContinues(i + 1, Len(pks), outcome)
     THEN /\ pc' = "processAccount"
          /\ i' = i + 1
          /\ proxy' = AssignProxy(globalUseProxy, globalProxies, i + 1)
          /\ started' = Append(started, i + 1)
          /\ timer' = 0
     ELSE /\ pc' = CycleEnd(Len(pks))
          /\ i' = 0
          /\ proxy' = Null
          /\ started' = started
          /\ timer' = delay([num |-> CycleDelay, den |-> 1])
  /\ NoLocals
  /\ UNCHANGED <<globalUseProxy, globalProxies, pks, rtrace>>

\* run: runCycle has returned; await delay(86400); the next cycle
run ==
  /\ pc = "cycleDone"
  /\ pc' = "runCycle"
  /\ pks' = <<>> /\ started' = <<>> /\ ended' = <<>>
  /\ timer' = 0
  /\ pauses' = NoPauses
  /\ UNCHANGED <<globalUseProxy, globalProxies, i, proxy, token, req, outcome, log,
                 issued, lastResp, taskVars, httpAttempts, rtrace>>

Next ==
  \/ initializeConfig
  \/ runCycle
  \/ runCycleNext
  \/ run
  \/ AccountNext(SchedTasks, 0)

Spec == Init /\ [][Next]_vars

\* every suspension ends: a request resolves (60 s timeout at the latest),
\* a delay elapses. position is where the thread is: every step changes it
position == <<pc, req.i>>

FairSpec == Spec /\ WF_position(Next)

\* what readPKs returns under FairBudget
BudgetKeyFiles == UNION {[1..n -> Keys] : n \in 0..BudgetAccounts}

\* initializeConfig has returned with the answer "n"; attempts are counted
InitBudget ==
  /\ globalUseProxy = FALSE /\ globalProxies = <<>> /\ pks = <<>> /\ i = 0
  /\ proxy = Null /\ token = Undefined /\ allTasks = <<>> /\ activeTasks = <<>>
  /\ pendingTasks = <<>> /\ taskIdx = 0 /\ completedCount = 0 /\ outcome = "none"
  /\ log = <<>> /\ issued = {}
  /\ lastResp = [kind |-> "none", ok |-> FALSE, data |-> NoData]
  /\ submitted = <<>> /\ approvedSeen = 0 /\ started = <<>> /\ ended = <<>>
  /\ timer = 0 /\ httpAttempts = 0 /\ pauses = NoPauses
  /\ pc = "runCycle"
  /\ req = NoReq
  /\ rtrace = NoTrace

NextBudget ==
  \/ runCycleFrom(BudgetKeyFiles)
  \/ runCycleNext
  \/ run
  \/ AccountNext(BudgetTasks, 0)

FairBudget == InitBudget /\ [][NextBudget]_vars /\ WF_position(NextBudget)

(* ======================= claims on the request client =================== *)
\* rtrace.hist lists the attempts that were followed by a backoff sleep.
Pow(b, n) == IF n = 0 THEN 1 ELSE IF n = 1 THEN b ELSE IF n = 2 THEN b * b ELSE b * b * b
ExpectedDelay(k) == (2000 * Pow(3, k - 1)) \div Pow(2, k - 1)

\* C1: no attempt answered with status 404 is followed by a backoff sleep
\* and a further attempt, under strict and under permissive validation.
C1_Never404Retry ==
  \A k \in 1..Len(rtrace.hist) :
     ~(rtrace.hist[k].resp /\ rtrace.hist[k].status = 404)

\* C3: a logical request makes at most 3 HTTP attempts and sleeps at most
\* 2 times, whatever the server answers.
C3_AtMostThreeAttempts ==
  /\ rtrace.attempts <= 3
  /\ Len(rtrace.sleeps) <= 2
  /\ Len(rtrace.sleeps) <= rtrace.attempts

C3_Witness ==
  /\ rtrace.result = "throw"
  /\ rtrace.attempts = 3
  /\ Len(rtrace.sleeps) = 2

\* C4: the k-th sleep lasts 2000 * 1.5^(k-1) ms; a call whose first k-1
\* attempts got 500 and whose k-th got 200 returns that response after
\* exactly k-1 sleeps; every call starts with a backoff of 2000 ms.
C4_BackoffSchedule ==
  /\ \A k \in 1..Len(rtrace.sleeps) : rtrace.sleeps[k] = ExpectedDelay(k)
  /\ req.kind # "none" /\ rtrace.attempts = 0
       => req.backoff = 2000 /\ rtrace.sleeps = <<>>
  /\ ( /\ rtrace.result \notin {"none", "pending"}
       /\ \A k \in 1..Len(rtrace.hist) :
             rtrace.hist[k].resp /\ rtrace.hist[k].status = 500
       /\ rtrace.final.resp /\ rtrace.final.status = 200 )
       => /\ rtrace.result = "return"
          /\ rtrace.attempts = Len(rtrace.hist) + 1
          /\ Len(rtrace.sleeps) = Len(rtrace.hist)

C4_Witness ==
  /\ rtrace.result = "return"
  /\ rtrace.hist = <<[resp |-> TRUE, status |-> 500], [resp |-> TRUE, status |-> 500]>>
  /\ rtrace.final = [resp |-> TRUE, status |-> 200]
  /\ rtrace.sleeps = <<2000, 3000>>

\* C5: a call ends either by returning the response of an HTTP attempt or
\* by throwing the error of its 3rd attempt; it never returns nothing.
C5_NoSilentFailure ==
  rtrace.result \notin {"none", "pending"} =>
    \/ rtrace.result = "return" /\ rtrace.final.resp
    \/ /\ rtrace.result = "throw"
       /\ rtrace.attempts = 3
       /\ Len(rtrace.hist) = 2

C5_Witness ==
  /\ rtrace.result = "throw"
  /\ rtrace.attempts = 3
  /\ ~rtrace.final.resp

(* ===================== claims on one account's processing ================ *)
\* the requests getAxiosConfig(proxy, token) builds the headers of
AuthKinds == {"checkin", "tasksOnce", "tasksDaily", "complete", "me"}

Count(seq, x) == Cardinality({k \in 1..Len(seq) : seq[k] = x})
Ids(seq) == {seq[k] : k \in 1..Len(seq)}
\* catalog order: the ONCE catalog before the DAILY one, each in server order
Before(a, b) == \/ a[1] = "ONCE" /\ b[1] = "DAILY"
                \/ a[1] = b[1] /\ a[2] < b[2]
LoopOver == Count(log, "me") > 0

\* C2: every check-in, task-fetch, task-completion and profile request
\* carries a non-empty token that the server returned to this account in
\* this cycle.
C2_RequestsCarryIssuedToken ==
  req.kind \in AuthKinds => req.auth \in issued /\ req.auth \in TokenValues

\* C7: a login response with a token ends login with that token and no
\* verify request; one with only a nonce is followed by exactly one verify
\* request that carries the signature over that nonce and the address, and
\* the token of its response is the result; one with neither fails login
\* with no verify request and no second login request.
C7_LoginProtocol ==
  /\ Count(log, "login") <= 1 /\ Count(log, "verify") <= 1
  /\ Count(log, "verify") = 1 => Len(log) >= 3 /\ log[2] = "login" /\ log[3] = "verify"
  /\ lastResp.kind = "login" /\ lastResp.ok =>
       IF lastResp.data.token \in TokenValues
       THEN /\ token = lastResp.data.token
            /\ log = <<"ip", "login", "checkin">>
            /\ req.kind = "checkin"
       ELSE IF lastResp.data.nonce \in Nonces
       THEN /\ log = <<"ip", "login", "verify">>
            /\ req.kind = "verify"
            /\ req.payload.signature
                 = <<"base64", <<"signature", lastResp.data.nonce, pks[i + 1]>>>>
            /\ req.payload.wallet_address = <<"address", pks[i + 1]>>
       ELSE /\ log = <<"ip", "login">>
            /\ pc = "returned" /\ outcome = "loginFailed"
  /\ lastResp.kind = "verify" /\ lastResp.ok =>
       /\ token = lastResp.data.token
       /\ log = <<"ip", "login", "verify", "checkin">>

C7_Witness ==
  /\ lastResp.kind = "verify" /\ lastResp.ok
  /\ token \in TokenValues
  /\ req.kind = "checkin"

\* C9: only tasks whose completion marker is null are submitted, in catalog
\* order (ONCE before DAILY), and once the task loop is over every such task
\* of the fetch result has been submitted.
C9_PendingFilter ==
  /\ \A j, k \in 1..Len(activeTasks) :
        j < k => Before(activeTasks[j].id, activeTasks[k].id)
  /\ \A k \in 1..Len(submitted) :
        \E t \in 1..Len(activeTasks) :
           activeTasks[t].id = submitted[k] /\ activeTasks[t].user_completion = Null
  /\ \A j, k \in 1..Len(submitted) : j < k => Before(submitted[j], submitted[k])
  /\ \A t \in 1..Len(activeTasks) :
        ( /\ activeTasks[t].user_completion = Null
          /\ \/ LoopOver
             \/ \E k \in 1..Len(submitted) : Before(activeTasks[t].id, submitted[k]) )
        => activeTasks[t].id \in Ids(submitted)

\* 5 one-time tasks, 2 of them completed, and 2 pending daily tasks
C9_Witness ==
  /\ LoopOver
  /\ Len(activeTasks) = 7
  /\ Cardinality({t \in 1..7 : activeTasks[t].id[1] = "ONCE"}) = 5
  /\ Cardinality({t \in 1..7 : activeTasks[t].id[1] = "ONCE"
                               /\ activeTasks[t].user_completion # Null}) = 2
  /\ \A t \in 1..7 : activeTasks[t].id[1] = "DAILY" => activeTasks[t].user_completion = Null
  /\ Len(submitted) = 5

\* C10: every pending task is handed to completeTask exactly once, in
\* order, whatever became of the tasks before it, and the completed count
\* is the number of completion responses that said APPROVED.
C10_TaskLoop ==
  /\ completedCount = approvedSeen
  /\ Len(submitted) <= Len(pendingTasks)
  /\ \A k \in 1..Len(submitted) : submitted[k] = pendingTasks[k].id
  /\ pc = "complete" => Len(submitted) = taskIdx + 1
  /\ pc = "taskDelay" => Len(submitted) = taskIdx + 1
  /\ LoopOver => Len(submitted) = Len(pendingTasks)

C10_Witness ==
  /\ LoopOver
  /\ Len(pendingTasks) >= 3
  /\ Len(submitted) = Len(pendingTasks)
  /\ completedCount = 1
  /\ lastResp.kind = "complete" /\ ~lastResp.ok

(* ========================= claims on the scheduler ====================== *)
\* C6: every account of a cycle is handed to processAccount, in order,
\* whatever became of the accounts before it (invalid key, failed login,
\* error during processing); an invalid key ends only its own account.
C6_AccountIsolation ==
  /\ pc \notin {"initializeConfig", "runCycle", "cycleDone"} =>
        /\ started = [k \in 1..(i + 1) |-> k - 1]
        /\ Len(ended) = i
  /\ pc = "cycleDone" =>
        /\ started = [k \in 1..Len(pks) |-> k - 1]
        /\ Len(ended) = Len(pks)
  /\ \A k \in 1..Len(ended) : ended[k] = "invalidKey" <=> pks[k] = "bad"
  /\ \A k \in 1..Len(ended) :
        ended[k] \in {"invalidKey", "loginFailed", "displayError", "completed"}

\* account 2 of 3 has an invalid key; accounts 1 and 3 were processed
C6_Witness ==
  /\ pc = "cycleDone"
  /\ pks = <<"good", "bad", "good">>
  /\ ended = <<"completed", "invalidKey", "completed">>

LoginFailed ==
  \/ lastResp.kind \in {"login", "verify"} /\ ~lastResp.ok
  \/ /\ lastResp.kind = "login" /\ lastResp.ok
     /\ lastResp.data.token \notin TokenValues
     /\ lastResp.data.nonce \notin Nonces

\* C8: after a failed login (request error after the retries, or a response
\* with neither token nor nonce) processAccount has returned without any
\* check-in, task-fetch, task-completion or profile request, and the
\* scheduler's next step is the next account, or the end of the cycle after
\* the last one.
C8_LoginFailureSkipsAccount ==
  /\ [](LoginFailed =>
          /\ pc = "returned" /\ outcome = "loginFailed"
          /\ \A k \in 1..Len(log) : log[k] \notin AuthKinds)
  /\ [][LoginFailed =>
          /\ ended' = Append(ended, "loginFailed")
          /\ IF i + 1 < Len(pks)
             THEN pc' = "processAccount" /\ i' = i + 1 /\ pks' = pks
             ELSE pc' = "cycleDone"]_vars

\* the account after one whose login failed is logging in
C8_Witness ==
  /\ i >= 1
  /\ ended[i] = "loginFailed"
  /\ pc = "login"

\* an account of the cycle is being processed, or its 5-second pause runs
InAccount == pc \notin {"initializeConfig", "runCycle", "cycleDone", "exit"}

\* C11: while account i is processed, the proxy handed to processAccount is
\* element (i mod P) of the proxy list when proxying is enabled and the list
\* has P >= 1 entries, and null when proxying is disabled or the list is
\* empty; it is never an undefined element.
C11_ProxyRoundRobin ==
  InAccount =>
    /\ proxy # Undefined
    /\ (globalUseProxy /\ Len(globalProxies) >= 1) =>
         proxy = globalProxies[(i % Len(globalProxies)) + 1]
    /\ (~globalUseProxy \/ Len(globalProxies) = 0) => proxy = Null

\* the third account wraps around a list of two proxies
C11_Witness ==
  /\ pc = "login"
  /\ globalUseProxy
  /\ Len(globalProxies) = 2
  /\ i = 2
  /\ proxy = globalProxies[1]

\* C12: a cycle over an empty account list processes nothing and runCycle
\* returns normally; run is then in its 24-hour sleep, and its next step is
\* a new cycle that reads the account list again.
C12_EmptyCycle ==
  /\ [][(pc = "runCycle" /\ pks' = <<>>) =>
          /\ pc' = "cycleDone"
          /\ timer' = 86400 * 1000
          /\ started' = <<>> /\ ended' = <<>> /\ log' = <<>> /\ req' = NoReq]_vars
  /\ [][(pc = "cycleDone" /\ started = <<>>) =>
          /\ pc' = "runCycle"
          /\ pks' = <<>> /\ timer' = 0]_vars
  /\ [][pc = "runCycle" =>
          /\ pks' \in KeyFiles
          /\ pks' # <<>> => (pc' = "processAccount" /\ i' = 0)]_vars

\* run sleeps after a cycle over no accounts
C12_Witness ==
  /\ pc = "cycleDone"
  /\ pks = <<>>
  /\ started = <<>>
  /\ timer = 86400 * 1000

\* C13: under fairness, with every HTTP attempt resolving, every cycle ends
\* in the 24-hour sleep and is followed by a next cycle, for ever; no
\* failure of an account, a task or a request takes the scheduler to a
\* state it does not leave.
C13_SchedulerRepeats ==
  /\ (pc = "runCycle") ~> (pc = "cycleDone")
  /\ (pc = "cycleDone") ~> (pc = "runCycle")
  /\ []<>(pc = "runCycle")
  /\ [](pc \notin {"exit", "crashed"})

\* the 24-hour sleep after a cycle whose accounts all failed
C13_Witness ==
  /\ pc = "cycleDone"
  /\ Len(ended) = 3
  /\ ended[1] = "loginFailed"
  /\ ended[2] = "invalidKey"
  /\ ended[3] = "loginFailed"

\* C14: accounts are processed one at a time in the order of the key list:
\* account 0 starts when runCycle has read the list, account i+1 starts only
\* from the 5-second pause that follows the return of account i, whatever
\* its outcome, with no request in flight; a request in flight is the one
\* request of the account being processed, and none is in flight during a
\* pause.
C14_Sequential ==
  /\ [](InAccount =>
          /\ Len(started) = i + 1 /\ Len(ended) = i
          /\ \A k \in 1..Len(started) : started[k] = k - 1)
  /\ [](req.kind # "none" => InAccount /\ pc = req.kind /\ timer = 0)
  /\ [](pc = "returned" => req = NoReq /\ timer = 5 * 1000)
  /\ [](pc = "taskDelay" => req = NoReq /\ timer = 2 * 1000)
  /\ [][pc' = "processAccount" =>
          /\ pks' \in KeyFiles /\ i' < Len(pks')
          /\ IF i' = 0
             THEN pc = "runCycle"
             ELSE /\ pc = "returned" /\ timer = 5 * 1000 /\ req = NoReq
                  /\ i' = i + 1 /\ pks' = pks
                  /\ ended' = Append(ended, outcome)]_vars

\* the third account starts after one aborted and one completed account
C14_Witness ==
  /\ pc = "processAccount"
  /\ i = 2
  /\ ended = <<"loginFailed", "completed">>
  /\ started = <<0, 1, 2>>

\* the positions in the request log of the requests of one kind
Pos(kind) == {k \in 1..Len(log) : log[k] = kind}

\* login has returned a token to processAccount: the check-in was started
LoggedIn == Pos("checkin") # {}

C16_NonFatalSteps ==
  /\ [](lastResp.kind = "ip" => pc = "login" /\ log = <<"ip", "login">>)
  /\ [](lastResp.kind = "checkin" => pc = "tasksOnce" /\ log[Len(log)] = "tasksOnce")
  /\ [](lastResp.kind = "me" =>
          /\ pc = "returned"
          /\ outcome \in {"completed", "displayError"}
          /\ ~lastResp.ok => outcome = "completed")
  /\ [][lastResp.kind = "me" =>
          /\ ended' = Append(ended, outcome)
          /\ IF i + 1 < Len(pks)
             THEN pc' = "processAccount" /\ i' = i + 1 /\ pks' = pks
             ELSE pc' = "cycleDone"]_vars

\* the profile refresh of an account that is not the last one has failed
C16_Witness ==
  /\ lastResp.kind = "me"
  /\ ~lastResp.ok
  /\ pc = "returned"
  /\ outcome = "completed"
  /\ i + 1 < Len(pks)

\* C17: login is invoked at most once per account in a cycle; every
\* check-in, task-fetch, task-completion and profile request of the account
\* carries the token that this login returned; each call of processAccount
\* starts without a token, so the token a request carries was returned by
\* the server to this account in this cycle, never in an earlier one.
C17_TokenPerAccountCycle ==
  /\ Cardinality(Pos("login")) <= 1
  /\ Cardinality(Pos("verify")) <= 1
  /\ pc \in {"processAccount", "ip", "login", "verify"} => token = Undefined
  /\ pc \in {"processAccount", "ip"} => issued = {}
  /\ req.kind \in AuthKinds =>
       /\ token \in issued
       /\ req.auth = token

\* C18: globalUseProxy and globalProxies are written by initializeConfig
\* only: every step of runCycle, processAccount and the request operations
\* leaves both unchanged; and in every state proxying enabled implies a
\* proxy list that is not empty.
C18_ConfigFrame ==
  /\ [](globalUseProxy => Len(globalProxies) >= 1)
  /\ [][pc # "initializeConfig" =>
          /\ globalUseProxy' = globalUseProxy
          /\ globalProxies' = globalProxies]_vars
  /\ [][pc' # "initializeConfig"]_vars

\* the second account runs with the second proxy read at startup
C18_Witness ==
  /\ globalUseProxy
  /\ Len(globalProxies) = 2
  /\ pc = "me"
  /\ i = 1
  /\ proxy = globalProxies[2]

\* fetchActiveTasks has thrown away tasks it had fetched
Discarded == pc \in {"me", "returned"} /\ allTasks # activeTasks

\* C19: when the request for either catalog fails after its retries,
\* fetchActiveTasks returns the empty list, also when the first catalog had
\* been fetched; then no task-completion request is issued for the account
\* in this pass, and the profile request follows.
C19_FetchAllOrNothing ==
  /\ (lastResp.kind \in {"tasksOnce", "tasksDaily"} /\ ~lastResp.ok) =>
       /\ activeTasks = <<>> /\ pendingTasks = <<>> /\ submitted = <<>>
       /\ Pos("complete") = {}
       /\ pc = "me" /\ log[Len(log)] = "me"
  /\ pc \notin {"tasksOnce", "tasksDaily"} /\ allTasks # activeTasks =>
       /\ activeTasks = <<>>
       /\ Pos("complete") = {}
       /\ pc \in {"me", "returned"}
       /\ Cardinality(Pos("me")) = 1

\* processAccount has returned after the profile request; the ONCE catalog
\* had pending tasks, the DAILY request failed, nothing was submitted
C19_Witness ==
  /\ pc = "returned"
  /\ Discarded
  /\ \E k \in 1..Len(allTasks) : IsPending(allTasks[k])
  /\ Pos("tasksDaily") # {}
  /\ Pos("me") # {}
  /\ submitted = <<>>

\* C20: processAccount makes at most 3 HTTP attempts for each of its
\* requests and at most N + 7 requests for N pending tasks (IP, login,
\* verify, check-in, two fetches, N completions, profile), so it has made
\* at most 3 * (N + 7) attempts when it returns; under fairness every call
\* of processAccount returns, and every cycle reaches the 24-hour sleep.
C20_Termination ==
  /\ [](InAccount =>
          /\ httpAttempts <= 3 * Len(log)
          /\ Len(log) <= Len(pendingTasks) + 7
          /\ httpAttempts <= 3 * (Len(pendingTasks) + 7))
  /\ (pc = "processAccount") ~> (pc = "returned")
  /\ (pc = "runCycle") ~> (pc = "cycleDone" /\ timer = 86400 * 1000)

\* an account with a pending task has used every attempt of every request
C20_Witness ==
  /\ pc = "returned"
  /\ Len(pendingTasks) >= 1
  /\ httpAttempts = 3 * (Len(pendingTasks) + 7)

\* C21: every task-completion attempt, whatever its result and also the
\* last one, is followed by a 2-second pause, so the pauses of an account
\* number the attempts that have resolved; every return of processAccount,
\* also an aborted one and the last one of the cycle, is followed by a
\* 5-second pause, so a cycle over n accounts has had exactly n 5-second
\* pauses when the 24-hour sleep begins.
C21_PausesFollowEveryItem ==
  /\ [][(pc = "complete" /\ pc' # "complete") =>
          /\ pc' = "taskDelay"
          /\ timer' = 2 * 1000
          /\ pauses'.task = pauses.task + 1]_vars
  /\ [](InAccount =>
          pauses.task = Len(submitted) - (IF pc = "complete" THEN 1 ELSE 0))
  /\ [](pc \in {"me", "returned"} => pauses.task = Len(pendingTasks))
  /\ [][(pc # "returned" /\ pc' = "returned") =>
          /\ timer' = 5 * 1000
          /\ pauses'.account = pauses.account + 1]_vars
  /\ [](InAccount =>
          pauses.account = Len(ended) + (IF pc = "returned" THEN 1 ELSE 0))
  /\ [][pc' = "cycleDone" =>
          /\ pauses'.account = Len(pks)
          /\ pks # <<>> => (pc = "returned" /\ timer = 5 * 1000)
          /\ timer' = 86400 * 1000]_vars
  /\ [](pc = "cycleDone" => pauses.account = Len(pks))

\* the 5-second pause after the last of three accounts, whose only task was
\* not completed and was followed by its 2-second pause; the accounts before
\* it were aborted
C21_Witness ==
  /\ pc = "returned"
  /\ Len(pks) = 3 /\ i = 2
  /\ ended = <<"loginFailed", "invalidKey">>
  /\ Len(pendingTasks) = 1 /\ completedCount = 0
  /\ pauses = [task |-> 1, account |-> 3]
  /\ timer = 5 * 1000

====
